---- MODULE Spec2Model ----
(***************************************************************************)
(* Model of the FINRA short-volume screener (src/app.py): the per-day      *)
(* fetcher download_finra_date, the assembler/metrics function load_data   *)
(* and the part of the main script that consumes load_data's result.       *)
(*                                                                         *)
(* Dates are proleptic Gregorian ordinals (datetime.date.toordinal), the   *)
(* 8-digit date code YYYYMMDD is the number y*10000 + m*100 + d.           *)
(* Ratios are floating point values: a record [kind, val] where kind is    *)
(* "null", "nan", "inf" or "num" and val is the rounded value scaled to an *)
(* integer (BS_Ratio in 1/1000, DP_Ratio in 1/10000, DP_Index_% in 1/10).  *)
(***************************************************************************)
EXTENDS Integers, Sequences, FiniteSets, TLC

VARIABLES
    today,          \* datetime.now().date(), as an ordinal
    feed,           \* what the CDN serves: [gap, period, profile]
    pc,             \* position of the main script
    mode,           \* sidebar radio: "Latest" | "Tickers" | "none"
    tickers,        \* parsed ticker list of the history mode
    lookback_days,  \* argument of load_data
    lpc,            \* position inside load_data
    i,              \* loop variable of range(max_check)
    days_found,     \* load_data local
    dfs,            \* load_data local: list of daily tables
    df_all,         \* load_data local: the combined table
    ret_df,         \* table returned by load_data
    latest_date,    \* date returned by load_data (None when absent)
    probed,         \* history: date codes handed to download_finra_date
    resp            \* history: kind of the last response of the feed

vars == <<today, feed, pc, mode, tickers, lookback_days, lpc, i, days_found,
          dfs, df_all, ret_df, latest_date, probed, resp>>

-----------------------------------------------------------------------------
(* Bounds of the model *)

FirstToday == 739915      \* 2026-10-26, a Monday
TodaySpan == 7            \* reference dates FirstToday .. FirstToday+TodaySpan-1
MaxGap == 3               \* newest populated file is 0..MaxGap days old
MaxPeriod == 2            \* a populated file every 1..MaxPeriod days

(* Program constants *)

max_check == 60
NoiseTotalVolume == 200000
NoiseBuyVolume == 100000

\* an absent date (Python None) and a present one
None == [some |-> FALSE, date |-> 0]
SomeDate(d) == [some |-> TRUE, date |-> d]

RollingWindow == 10

-----------------------------------------------------------------------------
(* datetime: ordinal <-> (year, month, day), weekday, strftime, strptime *)

IsLeap(y) == (y % 4 = 0) /\ ((y % 100 # 0) \/ (y % 400 = 0))

DaysInMonth(y, m) ==
    IF m = 2 THEN (IF IsLeap(y) THEN 29 ELSE 28)
    ELSE IF m \in {4, 6, 9, 11} THEN 30 ELSE 31

\* days of the year before the first of month m, in a common year
DaysBeforeMonthTable == <<0, 31, 59, 90, 120, 151, 181, 212, 243, 273, 304, 334>>

DaysBeforeMonth(y, m) ==
    DaysBeforeMonthTable[m] + (IF m > 2 /\ IsLeap(y) THEN 1 ELSE 0)

DaysBeforeYear(y) ==
    (y - 1) * 365 + ((y - 1) \div 4) - ((y - 1) \div 100) + ((y - 1) \div 400)

YmdToOrd(y, m, d) == DaysBeforeYear(y) + DaysBeforeMonth(y, m) + d

\* the (year, month, day) of an ordinal: the one calendar date whose ordinal it is
OrdToYmd(ord) ==
    CHOOSE c \in { [y |-> y, m |-> m, d |-> ord - DaysBeforeYear(y) - DaysBeforeMonth(y, m)] :
                      y \in ((ord * 400) \div 146097)..(((ord * 400) \div 146097) + 2),
                      m \in 1..12 } :
        c.d >= 1 /\ c.d <= DaysInMonth(c.y, c.m)

\* date.weekday(): Monday = 0 .. Sunday = 6
Weekday(ord) == (ord + 6) % 7

\* dt.strftime("%Y%m%d")
Strftime(ord) ==
    CHOOSE s \in { c.y * 10000 + c.m * 100 + c.d : c \in {OrdToYmd(ord)} } : TRUE

\* datetime.strptime(date_str, "%Y%m%d").date()
Strptime(date_str) ==
    YmdToOrd(date_str \div 10000, (date_str \div 100) % 100, date_str % 100)

-----------------------------------------------------------------------------
(* The upstream feed: what the CDN answers for a date code.  A populated    *)
(* file exists for the dates that are feed.gap, feed.gap + feed.period, ... *)
(* days before today (none at all when feed.gap = -1); every other date     *)
(* answers with one of the failure kinds or with a header-only file.        *)

FailKinds == <<"non200", "timeout", "connection", "malformed", "empty">>

Symbols == <<"AAA", "BAD", "XYZ", "ZERO">>

RawRow(sym, sv, sev, tv) ==
    [Symbol |-> sym, ShortVolume |-> sv, ShortExemptVolume |-> sev, TotalVolume |-> tv]

FeedRows(profile, d) ==
    CASE profile = 1 ->
           << RawRow("XYZ", 100 * (1 + (d % 2)), 0, 1000 * (1 + (d % 2))),
              RawRow("AAA", 150000, 10000, 300000 + (1000 * (d % 3))) >>
      [] profile = 2 ->
           << RawRow("ZERO", 0, 0, 0),
              RawRow("XYZ", 0, 0, 500000) >>
      [] OTHER ->
           << RawRow("BAD", 5, 0, 0),
              RawRow("AAA", 0, 120000, 150000) >>

FeedKind(date_str) ==
    LET d == Strptime(date_str)
        k == today - d
    IN  IF feed.gap >= 0 /\ k >= feed.gap /\ (k - feed.gap) % feed.period = 0
        THEN "ok"
        ELSE FailKinds[(d % Len(FailKinds)) + 1]

-----------------------------------------------------------------------------
(* download_finra_date *)

NoneResult == [tag |-> "None", rows |-> <<>>]

\* ExceptHandler without the handler: the exception propagates
ExceptHandlerReraises == [tag |-> "raise", rows |-> <<>>]

\* except: return None
ExceptHandler == NoneResult

\* requests.get(url, timeout=15): raises on a timeout or a connection failure
RequestsGet(date_str) ==
    LET kind == FeedKind(date_str)
    IN  [raised      |-> kind \in {"timeout", "connection"},
         status_code |-> IF kind = "non200" THEN 404 ELSE 200,
         content     |-> kind]

\* pl.read_csv(...): raises on an unparseable payload, a header-only payload
\* parses to a table without rows
ReadCsv(content, date_str) ==
    [raised |-> content = "malformed",
     rows   |-> IF content = "ok"
                THEN FeedRows(feed.profile, Strptime(date_str))
                ELSE <<>>]

\* .with_columns(pl.lit(datetime.strptime(date_str, "%Y%m%d").date()).alias("Date"))
WithDate(rows, date_str) ==
    [k \in 1..Len(rows) |->
        [Symbol |-> rows[k].Symbol, ShortVolume |-> rows[k].ShortVolume,
         ShortExemptVolume |-> rows[k].ShortExemptVolume,
         TotalVolume |-> rows[k].TotalVolume, Date |-> Strptime(date_str)]]

download_finra_date(date_str) ==
    LET r == RequestsGet(date_str)
    IN  IF r.raised THEN ExceptHandler
        ELSE IF r.status_code # 200 THEN NoneResult
        ELSE LET p == ReadCsv(r.content, date_str)
             IN  IF p.raised THEN ExceptHandler
                 ELSE [tag |-> "df", rows |-> WithDate(p.rows, date_str)]

-----------------------------------------------------------------------------
(* load_data: helpers *)

\* CandidateDate with the sign reversed: the loop walks forward in time
CandidateDateForward(t, k) == t + k

\* today - timedelta(days=i)
CandidateDate(t, k) == t - k

\* IsWeekend with the bound off by one: only Sunday is skipped
IsWeekendSundayOnly(dt) == Weekday(dt) >= 6

\* dt.weekday() >= 5
IsWeekend(dt) == Weekday(dt) >= 5

\* IsPopulated without the emptiness test: an empty table counts as a day
IsPopulatedAnyTable(df) == df.tag = "df"

\* df is not None and not df.is_empty()
IsPopulated(df) == df.tag = "df" /\ df.rows # <<>>

\* TargetReached with a strict comparison: one day too many
TargetReachedLate(found, lookback) == found > lookback

\* days_found >= lookback_days
TargetReached(found, lookback) == found >= lookback

RECURSIVE Concat(_)
Concat(tables) ==
    IF tables = <<>> THEN <<>> ELSE Head(tables) \o Concat(Tail(tables))

Null == [kind |-> "null", val |-> 0]
NaN  == [kind |-> "nan", val |-> 0]
Inf  == [kind |-> "inf", val |-> 0]
Num(v) == [kind |-> "num", val |-> v]

\* n / d to k decimal places: quotient and remainder of n * 10^k by d
RECURSIVE Scaled(_, _, _)
Scaled(n, d, k) ==
    IF k = 0 THEN [q |-> n \div d, r |-> n % d]
    ELSE LET p == Scaled(n, d, k - 1)
         IN  [q |-> p.q * 10 + ((p.r * 10) \div d), r |-> (p.r * 10) % d]

\* (n / d).round(k) on Float64, n >= 0, d >= 0: x/0 is inf, 0/0 is NaN
FloatDivRound(n, d, k) ==
    IF d = 0 THEN (IF n = 0 THEN NaN ELSE Inf)
    ELSE LET s == Scaled(n, d, k)
         IN  Num(IF 2 * s.r >= d THEN s.q + 1 ELSE s.q)

\* the with_columns passes of lines 60-70 on one row
DeriveRow(r) ==
    LET buy == r.ShortVolume + r.ShortExemptVolume
    IN  [Symbol |-> r.Symbol, Date |-> r.Date, ShortVolume |-> r.ShortVolume,
         ShortExemptVolume |-> r.ShortExemptVolume, TotalVolume |-> r.TotalVolume,
         BuyVolume  |-> buy,
         SellVolume |-> r.TotalVolume - buy,
         BS_Ratio   |-> IF r.ShortVolume > 0
                        THEN FloatDivRound(buy, r.ShortVolume, 3)
                        ELSE Null,
         DP_Ratio   |-> FloatDivRound(buy, r.TotalVolume, 4),
         DP_Index   |-> FloatDivRound(buy * 100, r.TotalVolume, 1)]

Derive(rows) == [k \in 1..Len(rows) |-> DeriveRow(rows[k])]

SymbolRank(sym) == CHOOSE k \in 1..Len(Symbols) : Symbols[k] = sym

\* row a sorts at or before row b under ["Symbol", "Date"]
RowLeq(a, b) ==
    \/ SymbolRank(a.Symbol) < SymbolRank(b.Symbol)
    \/ a.Symbol = b.Symbol /\ a.Date <= b.Date

\* df_all.sort(["Symbol", "Date"]): a stable sort; row k goes to the position
\* after the rows that sort strictly before it and the equal ones that precede it
SortBySymbolDate(rows) ==
    LET n   == Len(rows)
        pos == SubSeq([k \in 1..n |->
                  1 + Cardinality({ j \in 1..n :
                        \/ ~RowLeq(rows[k], rows[j])
                        \/ (RowLeq(rows[j], rows[k]) /\ j < k) })], 1, n)
    IN  [p \in 1..n |-> rows[CHOOSE k \in 1..n : pos[k] = p]]

\* the columns of a table (pl.DataFrame() has none)
Columns(df) == IF df = <<>> THEN {} ELSE DOMAIN df[1]

-----------------------------------------------------------------------------
(* load_data: the rolling baseline, the noise filter and the returned date *)

\* the attributes of a polars expression that load_data's pipeline names;
\* attribute lookup is case-sensitive
ExprMethods == {"cast", "alias", "round", "over", "rolling_mean"}

RECURSIVE SumTotalVolume(_, _)
SumTotalVolume(rows, idx) ==
    IF idx = {} THEN 0
    ELSE LET k == CHOOSE x \in idx : TRUE
         IN  rows[k].TotalVolume + SumTotalVolume(rows, idx \ {k})

\* positions of the rows of rows[j]'s symbol up to and including j
GroupUpTo(rows, j) == { k \in 1..j : rows[k].Symbol = rows[j].Symbol }

\* the n last positions of a set of positions
LastN(idx, n) == { k \in idx : Cardinality({ m \in idx : m > k }) < n }

\* rolling_mean(window_size=10, min_periods=1).over("Symbol") at row j,
\* as the fraction sum / n
RollingMeanAt(rows, j) ==
    LET win == LastN(GroupUpTo(rows, j), RollingWindow)
    IN  [sum |-> SumTotalVolume(rows, win), n |-> Cardinality(win)]

\* lines 74-81: Avg10d_Volume, then Relative_Volume
WithRolling(rows) ==
    [j \in 1..Len(rows) |->
        LET avg == RollingMeanAt(rows, j)
            r   == rows[j]
        IN  [Symbol |-> r.Symbol, Date |-> r.Date, ShortVolume |-> r.ShortVolume,
             ShortExemptVolume |-> r.ShortExemptVolume,
             TotalVolume |-> r.TotalVolume, BuyVolume |-> r.BuyVolume,
             SellVolume |-> r.SellVolume, BS_Ratio |-> r.BS_Ratio,
             DP_Ratio |-> r.DP_Ratio, DP_Index |-> r.DP_Index,
             Avg10d_Volume |-> avg,
             Relative_Volume |-> FloatDivRound(r.TotalVolume * avg.n, avg.sum, 2)]]

\* (TotalVolume >= 200_000) | (BuyVolume >= 100_000)
KeepRow(r) == r.TotalVolume >= NoiseTotalVolume \/ r.BuyVolume >= NoiseBuyVolume

NoiseFilter(rows) == SelectSeq(rows, KeepRow)

MaxDate(rows) ==
    CHOOSE d \in { rows[k].Date : k \in 1..Len(rows) } :
        \A k \in 1..Len(rows) : rows[k].Date <= d

\* df_all["Date"].max(): None on a table without rows
LatestDate(rows) == IF rows = <<>> THEN None ELSE SomeDate(MaxDate(rows))

-----------------------------------------------------------------------------
(* Initial state: the script is about to run; the environment is fixed. *)

\* the row contents FeedRows distinguishes
Profiles == {1, 2, 3}

Feeds ==
    { [gap |-> -1, period |-> 1, profile |-> 1] } \cup
    [gap : 0..MaxGap, period : 1..MaxPeriod, profile : Profiles]

\* number_input("Days of history", 5, 90, 30, step=5): the minimum, the
\* default, the maximum and the values around the number of weekdays probed
DaysBackChoices == {5, 30, 40, 45, 90}

\* the parsed ticker list: empty input, or the tickers asked for
TickerInputs == { <<>>, <<"XYZ", "AAA">> }

Init ==
    /\ today \in FirstToday..(FirstToday + TodaySpan - 1)
    /\ feed \in Feeds
    /\ pc = "main"
    /\ mode = "none"
    /\ tickers = <<>>
    /\ lookback_days = 1
    /\ lpc = "idle"
    /\ i = 0
    /\ days_found = 0
    /\ dfs = <<>>
    /\ df_all = <<>>
    /\ ret_df = <<>>
    /\ latest_date = None
    /\ probed = <<>>
    /\ resp = "none"

-----------------------------------------------------------------------------
(* load_data *)

\* lines 37-40: entry of load_data(lookback)
CallLoadData(lookback) ==
    /\ lookback_days' = lookback
    /\ lpc' = "loop"
    /\ i' = 0
    /\ days_found' = 0
    /\ dfs' = <<>>
    /\ UNCHANGED <<df_all, ret_df, latest_date, probed, resp>>

\* lines 42-45: a weekend day is skipped without a fetch
LoopSkipWeekend ==
    /\ lpc = "loop"
    /\ i < max_check
    /\ IsWeekend(CandidateDate(today, i))
    /\ i' = i + 1
    /\ UNCHANGED <<today, feed, pc, mode, tickers, lookback_days, lpc, days_found,
                   dfs, df_all, ret_df, latest_date, probed, resp>>

\* lines 42-52: a weekday is fetched and yields no populated table
LoopProbeMiss ==
    /\ lpc = "loop"
    /\ i < max_check
    /\ ~IsWeekend(CandidateDate(today, i))
    /\ \E date_str \in {Strftime(CandidateDate(today, i))} :
       \E df \in {download_finra_date(date_str)} :
           /\ ~IsPopulated(df)
           /\ probed' = Append(probed, date_str)
           /\ resp' = FeedKind(date_str)
           /\ IF df.tag = "raise"
              THEN lpc' = "raised" /\ i' = i
              ELSE lpc' = lpc /\ i' = i + 1
    /\ UNCHANGED <<today, feed, pc, mode, tickers, lookback_days, days_found,
                   dfs, df_all, ret_df, latest_date>>

\* lines 42-52: a weekday is fetched and yields a populated table
LoopProbeHit ==
    /\ lpc = "loop"
    /\ i < max_check
    /\ ~IsWeekend(CandidateDate(today, i))
    /\ \E date_str \in {Strftime(CandidateDate(today, i))} :
       \E df \in {download_finra_date(date_str)} :
           /\ IsPopulated(df)
           /\ probed' = Append(probed, date_str)
           /\ resp' = FeedKind(date_str)
           /\ dfs' = Append(dfs, df.rows)
           /\ days_found' = days_found + 1
           /\ IF TargetReached(days_found + 1, lookback_days)
              THEN lpc' = "after_loop" /\ i' = i
              ELSE lpc' = lpc /\ i' = i + 1
    /\ UNCHANGED <<today, feed, pc, mode, tickers, lookback_days,
                   df_all, ret_df, latest_date>>

\* line 42: range(max_check) is exhausted
LoopExhausted ==
    /\ lpc = "loop"
    /\ i = max_check
    /\ lpc' = "after_loop"
    /\ UNCHANGED <<today, feed, pc, mode, tickers, lookback_days, i, days_found,
                   dfs, df_all, ret_df, latest_date, probed, resp>>

\* lines 54-55: no day was found
ReturnEmpty ==
    /\ lpc = "after_loop"
    /\ dfs = <<>>
    /\ ret_df' = <<>>
    /\ latest_date' = None
    /\ lpc' = "returned"
    /\ UNCHANGED <<today, feed, pc, mode, tickers, lookback_days, i, days_found,
                   dfs, df_all, probed, resp>>

\* lines 57-70: concatenation and the derived columns
ConcatDerive ==
    /\ lpc = "after_loop"
    /\ dfs # <<>>
    /\ df_all' = Derive(Concat(dfs))
    /\ lpc' = "derived"
    /\ UNCHANGED <<today, feed, pc, mode, tickers, lookback_days, i, days_found,
                   dfs, ret_df, latest_date, probed, resp>>

\* line 73
SortTable ==
    /\ lpc = "derived"
    /\ df_all' = SortBySymbolDate(df_all)
    /\ lpc' = "sorted"
    /\ UNCHANGED <<today, feed, pc, mode, tickers, lookback_days, i, days_found,
                   dfs, ret_df, latest_date, probed, resp>>

\* lines 74-89: pl.col("TotalVolume").Rolling_mean raises AttributeError when
\* the expression has no such attribute; otherwise the rolling columns, the
\* noise filter and the return
RollingFilterReturn ==
    /\ lpc = "sorted"
    /\ IF "Rolling_mean" \in ExprMethods
       THEN LET out == NoiseFilter(WithRolling(df_all))
            IN  /\ df_all' = out
                /\ ret_df' = out
                /\ latest_date' = LatestDate(out)
                /\ lpc' = "returned"
       ELSE /\ lpc' = "raised"
            /\ UNCHANGED <<df_all, ret_df, latest_date>>
    /\ UNCHANGED <<today, feed, pc, mode, tickers, lookback_days, i, days_found,
                   dfs, probed, resp>>

-----------------------------------------------------------------------------
(* The main script, lines 117-148 *)

\* lines 122-123
MainLatestDay ==
    /\ pc = "main"
    /\ mode' = "Latest"
    /\ pc' = "load_data"
    /\ CallLoadData(1)
    /\ UNCHANGED <<today, feed, tickers>>

\* lines 136-145
MainSpecificTickers ==
    /\ pc = "main"
    /\ \E t \in TickerInputs, days_back \in DaysBackChoices :
          /\ mode' = "Tickers"
          /\ tickers' = t
          /\ IF t = <<>>
             THEN /\ pc' = "stopped"
                  /\ UNCHANGED <<lookback_days, lpc, i, days_found, dfs, df_all,
                                 ret_df, latest_date, probed, resp>>
             ELSE /\ pc' = "load_data"
                  /\ CallLoadData(days_back)
    /\ UNCHANGED <<today, feed>>

\* lines 123-124 and 145-148: the use of load_data's result.  strftime on
\* None raises AttributeError; filtering on a column the table does not have
\* raises ColumnNotFoundError
MainUseResult ==
    /\ pc = "load_data"
    /\ lpc = "returned"
    /\ pc' = IF mode = "Latest"
             THEN (IF latest_date.some THEN "display" ELSE "crashed")
             ELSE (IF "Symbol" \notin Columns(ret_df) THEN "crashed"
                   ELSE IF latest_date.some THEN "display" ELSE "crashed")
    /\ UNCHANGED <<today, feed, mode, tickers, lookback_days, lpc, i, days_found,
                   dfs, df_all, ret_df, latest_date, probed, resp>>

\* an exception of load_data is caught nowhere in the script
MainUncaught ==
    /\ pc = "load_data"
    /\ lpc = "raised"
    /\ pc' = "crashed"
    /\ UNCHANGED <<today, feed, mode, tickers, lookback_days, lpc, i, days_found,
                   dfs, df_all, ret_df, latest_date, probed, resp>>

-----------------------------------------------------------------------------

Next ==
    \/ MainLatestDay
    \/ MainSpecificTickers
    \/ LoopSkipWeekend
    \/ LoopProbeMiss
    \/ LoopProbeHit
    \/ LoopExhausted
    \/ ReturnEmpty
    \/ ConcatDerive
    \/ SortTable
    \/ RollingFilterReturn
    \/ MainUseResult
    \/ MainUncaught

Spec == Init /\ [][Next]_vars

\* the call of load_data and its probe loop, lines 36-52
ProbeNext ==
    \/ MainLatestDay
    \/ MainSpecificTickers
    \/ LoopSkipWeekend
    \/ LoopProbeMiss
    \/ LoopProbeHit
    \/ LoopExhausted

\* the script is sequential: the step that is enabled is eventually taken
\* (the loop reads no row of a table, so one row profile is enough here)
ProbeInit == Init /\ feed.profile = 1

ProbeFairSpec == ProbeInit /\ [][ProbeNext]_vars /\ WF_vars(ProbeNext)

-----------------------------------------------------------------------------
(* Properties *)

Min(a, b) == IF a <= b THEN a ELSE b

\* offsets of the weekdays among the max_check calendar days ending today
WeekdayOffsets == { k \in 0..(max_check - 1) : Weekday(today - k) \notin {5, 6} }

\* offsets of the weekdays inside the probe budget whose file is populated
PopulatedOffsets == { k \in WeekdayOffsets : FeedKind(Strftime(today - k)) = "ok" }

LoopLeft == lpc \in {"after_loop", "derived", "sorted", "returned", "raised"}

Fetched == Len(probed') = Len(probed) + 1

Unavailable == {"non200", "timeout", "connection", "malformed"}

\* C1: the probe loop terminates; the number of tables accumulated is
\* min(lookback_days, populated weekday candidates inside the budget); a
\* fetch appends a table exactly when the table is populated; and no fetch is
\* made once days_found has reached the target.
C1_ProbeLoop ==
    /\ [](lpc = "loop" => <>(lpc = "after_loop"))
    /\ [](LoopLeft => /\ Len(dfs) = Min(lookback_days, Cardinality(PopulatedOffsets))
                      /\ days_found = Len(dfs))
    /\ [][Fetched => /\ days_found < lookback_days
                     /\ (resp' = "ok") <=> (dfs' # dfs)
                     /\ (resp' = "ok") => (dfs' = Append(dfs, dfs'[Len(dfs')]) /\
                                           dfs'[Len(dfs')] # <<>>)]_vars
    /\ [][(dfs' # dfs /\ lpc = "loop") => Fetched]_vars

\* the loop was cut short at the fifth populated day, after misses
C1_Witness ==
    /\ lpc = "after_loop"
    /\ lookback_days = 5
    /\ days_found = 5
    /\ Len(probed) > 5
    /\ i < max_check - 1

\* C2: when no candidate inside the probe budget is populated, load_data does
\* not raise and what it returns is an empty table and no most-recent-date.
C2_EmptyWindow ==
    (LoopLeft /\ PopulatedOffsets = {}) =>
        /\ dfs = <<>>
        /\ lpc \in {"after_loop", "returned"}
        /\ lpc = "returned" => (ret_df = <<>> /\ latest_date = None)

C2_Witness ==
    /\ lpc = "returned"
    /\ PopulatedOffsets = {}
    /\ ret_df = <<>>
    /\ latest_date = None
    /\ Len(probed) > 0

\* C3: a refresh pass (load_data, then the script's use of its result in
\* either mode) ends without an uncaught fault.
C3_NoUncaughtFault == pc # "crashed"

\* C4: whenever load_data found a populated day, it returns, and the date it
\* returns is the date of the first populated candidate in probing order.
C4_MostRecentDate ==
    (lpc \in {"returned", "raised"} /\ dfs # <<>>) =>
        /\ lpc = "returned"
        /\ latest_date = SomeDate(dfs[1][1].Date)

\* C5: the probe budget is strictly larger than the requested number of
\* days, and when every weekday has a populated file load_data assembles
\* exactly lookback_days days.
C5_BudgetScales ==
    lpc # "idle" =>
        /\ max_check > lookback_days
        /\ (LoopLeft /\ PopulatedOffsets = WeekdayOffsets) => days_found = lookback_days

\* C6: the dates handed to the fetcher are never a Saturday or Sunday, are
\* strictly descending, and start at or before the reference date.
C6_CandidateDates ==
    /\ \A k \in 1..Len(probed) : Weekday(Strptime(probed[k])) \notin {5, 6}
    /\ \A k \in 1..(Len(probed) - 1) : Strptime(probed[k]) > Strptime(probed[k + 1])
    /\ probed # <<>> => Strptime(probed[1]) <= today

\* a Sunday reference date: the first candidate is the Friday before
C6_Witness ==
    /\ Weekday(today) = 6
    /\ Len(probed) >= 10
    /\ Strptime(probed[1]) = today - 2

\* C7 as stated: when no probed date is populated, the number of dates
\* probed equals the probe budget max_check.
C7_ProbedEqualsBudget ==
    (lpc = "after_loop" /\ dfs = <<>>) => Len(probed) = max_check

\* C7 as amended: when no probed date is populated, the loop has walked
\* max_check calendar days and probed the weekdays among them, which are
\* max_check less two per week, give or take the weekend of the partial week.
C7_ProbedWeekdaysOfBudget ==
    (lpc = "after_loop" /\ dfs = <<>>) =>
        /\ i = max_check
        /\ Len(probed) = Cardinality(WeekdayOffsets)
        /\ Len(probed) >= max_check - 2 * ((max_check + 6) \div 7)
        /\ Len(probed) <= max_check - 2 * (max_check \div 7)

C7_Witness ==
    /\ lpc = "after_loop"
    /\ dfs = <<>>
    /\ Len(probed) = 42

\* C8: a fetch that fails (non-200, timeout, connection failure, unparseable
\* payload) yields None inside download_finra_date, raises nothing into
\* load_data, adds no table, and the loop goes on to the next candidate; no
\* table of a failed date is in the window the loop assembled.
C8_FailedFetchNotFatal ==
    /\ [][(Fetched /\ resp' \in Unavailable) =>
             /\ download_finra_date(probed'[Len(probed')]) = NoneResult
             /\ lpc' = "loop"
             /\ i' = i + 1
             /\ dfs' = dfs
             /\ days_found' = days_found]_vars
    /\ [](LoopLeft => \A k \in 1..Len(dfs) : FeedKind(Strftime(dfs[k][1].Date)) = "ok")

\* a failed fetch after a day was found, and the loop still running
C8_Witness ==
    /\ lpc = "loop"
    /\ resp = "malformed"
    /\ dfs # <<>>
    /\ i < max_check

\* mean of TotalVolume over the last min(k, 10) rows of rows[j]'s symbol
\* in date order, times the number of those rows
WindowSum(rows, j) ==
    LET same == { k \in 1..Len(rows) : rows[k].Symbol = rows[j].Symbol
                                        /\ rows[k].Date <= rows[j].Date }
        win  == { k \in same :
                    Cardinality({ m \in same : rows[m].Date > rows[k].Date }) < 10 }
    IN  [sum |-> SumTotalVolume(rows, win), n |-> Cardinality(win)]

\* C9: once load_data has found a populated day it returns a table whose
\* Avg10d_Volume on every record is the mean of TotalVolume over the symbol's
\* most recent min(k, 10) records up to that one.
C9_RollingBaseline ==
    (lpc \in {"returned", "raised"} /\ dfs # <<>>) =>
        /\ lpc = "returned"
        /\ \A j \in 1..Len(ret_df) :
              /\ "Avg10d_Volume" \in DOMAIN ret_df[j]
              /\ ret_df[j].Avg10d_Volume = WindowSum(ret_df, j)

\* C10: in the combined table a record with ShortVolume = 0 has a null
\* BS_Ratio and a record with TotalVolume = 0 has a null DP_Ratio and
\* DP_Index, not an infinite or NaN one; and no record is dropped by the
\* derivation.
C10_ZeroDenominators ==
    lpc \in {"derived", "sorted"} =>
        /\ Len(df_all) = Len(Concat(dfs))
        /\ \A j \in 1..Len(df_all) :
              /\ df_all[j].ShortVolume = 0 => df_all[j].BS_Ratio = Null
              /\ df_all[j].TotalVolume = 0 =>
                    (df_all[j].DP_Ratio = Null /\ df_all[j].DP_Index = Null)

====
